---------------------------- MODULE Spec2Model ----------------------------
(***************************************************************************)
(* A model of GaugeSVGFull (src/gauge/gauge_svg_full.py): the constructor, *)
(* the value-to-angle mapping, the document composer and set_value.        *)
(*                                                                         *)
(* Numbers.  Python floats are modelled by exact rationals <<n, d>> with   *)
(* d > 0 and gcd(n, d) = 1.  The inputs are integers and dyadic fractions, *)
(* which a float holds exactly.                                            *)
(***************************************************************************)
EXTENDS Integers, Sequences, FiniteSets, TLC

VARIABLES
    gauge,      \* per instance: the GaugeSVGFull object, once __init__ returned
    kwargs,     \* per instance: the arguments __init__ was called with
    lastCall,   \* per instance: the last call the host made and its arguments
    raised,     \* per instance: the exception that call raised, or "none"
    document,   \* per instance: the document in the page, patches applied
    patch,      \* per instance: the last script handed to ui.run_javascript
    emitted,    \* per instance: what the last call handed to ui, in order
    probe       \* per instance: the result of the last _calculate_angle call

vars == <<gauge, kwargs, lastCall, raised, document, patch, emitted, probe>>

-----------------------------------------------------------------------------
(* Rational arithmetic *)

Abs(n) == IF n < 0 THEN -n ELSE n

RECURSIVE GCD(_, _)
GCD(a, b) == IF b = 0 THEN a ELSE GCD(b, a % b)

Norm(n, d) ==
    LET s == IF d < 0 THEN -1 ELSE 1
        g == GCD(Abs(n), Abs(d))
    IN  <<(s * n) \div g, (s * d) \div g>>

R(n) == <<n, 1>>

RAdd(a, b) == Norm(a[1] * b[2] + b[1] * a[2], a[2] * b[2])
RSub(a, b) == Norm(a[1] * b[2] - b[1] * a[2], a[2] * b[2])
RMul(a, b) == Norm(a[1] * b[1], a[2] * b[2])
RDiv(a, b) == Norm(a[1] * b[2], a[2] * b[1])
RLt(a, b)  == a[1] * b[2] < b[1] * a[2]
RLe(a, b)  == a[1] * b[2] <= b[1] * a[2]
RAbs(a)    == <<Abs(a[1]), a[2]>>

-----------------------------------------------------------------------------
(* Python built-ins used by the class *)

\* min(a, b): the first argument unless the second is smaller.
PyMin(a, b) == IF RLt(b, a) THEN b ELSE a

\* max(a, b): the first argument unless the second is larger.
PyMax(a, b) == IF RLt(a, b) THEN b ELSE a

\* The clamp without its upper bound.
ClampNoUpper(lo, hi, v) == PyMax(lo, v)

\* The clamp without its lower bound.
ClampNoLower(lo, hi, v) == PyMin(hi, v)

\* max(min_value, min(max_value, value))
Clamp(lo, hi, v) == PyMax(lo, PyMin(hi, v))

\* An operation's outcome: a returned value or a raised exception.
Ok(v)    == [ok |-> TRUE, val |-> v, err |-> "none"]
Raise(e) == [ok |-> FALSE, val |-> R(0), err |-> e]

-----------------------------------------------------------------------------
(* The constructor's arguments *)

\* angle_map: None, or a list of (value, angle) pairs.
NoMap     == [some |-> FALSE, pts |-> <<>>]
MapOf(ps) == [some |-> TRUE, pts |-> ps]
Pt(x, y)  == <<R(x), R(y)>>

\* `if angle_map:` and `if getattr(self, '_angle_map', None):`
Truthy(am) == am.some /\ Len(am.pts) > 0

\* The list kept in the order it was passed.
KeptAsGiven(s) == s

\* sorted(angle_map, key=lambda t: t[0]): a stable sort on the value alone.
RECURSIVE Insert(_, _)
Insert(p, s) ==
    IF s = <<>> THEN <<p>>
    ELSE IF RLt(p[1], s[1][1]) THEN <<p>> \o s
         ELSE <<s[1]>> \o Insert(p, Tail(s))

RECURSIVE SortedByValue(_)
SortedByValue(s) ==
    IF s = <<>> THEN <<>>
    ELSE Insert(s[Len(s)], SortedByValue(SubSeq(s, 1, Len(s) - 1)))

\* The attributes __init__ has assigned when it reaches line 90.  Lines 80-82,
\* which would assign _counter_clockwise, _angle_center and _angle_span, are
\* commented out.
AttrsAtLine90 ==
    {"_id", "_value", "_min", "_max", "_label", "_gauge_type", "_size",
     "_needle_color", "_needle_length", "_show_value", "_show_ticks",
     "_tick_count", "_background_image", "_angle_map"}

\* The attributes of an object whose __init__ has run to its end.
AttrsAfterInit ==
    AttrsAtLine90 \cup
    {"_center_x", "_center_y", "_radius", "_start_angle", "_angle_range",
     "_container_height", "_background_base64", "_colored_zones", "container"}

DefaultTicksSemicircular == 12
DefaultTicksCircular == 10
Margin == 20
StartCircular == 270
RangeCircular == 360
StartSemicircular == 180
RangeSemicircular == -180

\* tick_count: <<>> is None, <<n>> is n.
TickCountOf(a) ==
    IF a.tick_count = <<>>
    THEN IF a.gauge_type = "semicircular" THEN DefaultTicksSemicircular
         ELSE DefaultTicksCircular
    ELSE a.tick_count[1]

-----------------------------------------------------------------------------
(* _calculate_angle *)

\* The segment with t measured from x1 instead of x0.
OnSegmentFromX1(p0, p1, value, flat) ==
    IF p1[1] = p0[1] THEN flat
    ELSE RAdd(p0[2], RMul(RDiv(RSub(value, p1[1]), RSub(p1[1], p0[1])),
                          RSub(p1[2], p0[2])))

\* The segment whose zero-width case returns y1 wherever it is used.
OnSegmentFlatY1(p0, p1, value, flat) ==
    IF p1[1] = p0[1] THEN p1[2]
    ELSE RAdd(p0[2], RMul(RDiv(RSub(value, p0[1]), RSub(p1[1], p0[1])),
                          RSub(p1[2], p0[2])))

\* One segment (x0,y0)-(x1,y1) at `value`; `flat` is what a zero-width
\* segment returns.
OnSegment(p0, p1, value, flat) ==
    IF p1[1] = p0[1] THEN flat
    ELSE LET t == RDiv(RSub(value, p0[1]), RSub(p1[1], p0[1]))
         IN  RAdd(p0[2], RMul(t, RSub(p1[2], p0[2])))

\* Lines 185-189: the default mapping.
LinearAngle(g, value) ==
    IF g.max = g.min THEN Raise("ZeroDivisionError")
    ELSE IF "_counter_clockwise" \notin g.attrs THEN Raise("AttributeError")
    ELSE LET normalized == RDiv(RSub(value, g.min), RSub(g.max, g.min))
             angle_range == g.angle_range * (IF g.counter_clockwise THEN -1 ELSE 1)
         IN  Ok(RAdd(R(g.start_angle), RMul(normalized, R(angle_range))))

\* The loop returning from its first iteration, the test left out.
BracketFirstSegment(m, value) == 1

\* Lines 176-183: the first segment that holds `value`, 0 when there is none.
Bracket(m, value) ==
    LET hits == {i \in 1..(Len(m) - 1) :
                    RLe(m[i][1], value) /\ RLe(value, m[i + 1][1])}
    IN  IF hits = {} THEN 0
        ELSE CHOOSE i \in hits : \A j \in hits : i <= j

\* Lines 176-183 at the segment i that Bracket found; "fall" when the loop
\* ends unmatched.
AtBracket(m, value, i) ==
    IF i = 0 THEN Raise("fall")
    ELSE Ok(OnSegment(m[i], m[i + 1], value, m[i][2]))

\* The mapping with the angle held at the first and the last breakpoint's.
PiecewiseClamped(m, value) ==
    IF Len(m) = 1 THEN Ok(m[1][2])
    ELSE IF RLe(value, m[1][1]) THEN Ok(m[1][2])
    ELSE IF RLe(m[Len(m)][1], value) THEN Ok(m[Len(m)][2])
    ELSE AtBracket(m, value, Bracket(m, value))

\* Lines 152-183: the piecewise mapping.
Piecewise(m, value) ==
    IF Len(m) = 1 THEN Ok(m[1][2])
    ELSE IF RLe(value, m[1][1])
         THEN Ok(OnSegment(m[1], m[2], value, m[1][2]))
    ELSE IF RLe(m[Len(m)][1], value)
         THEN Ok(OnSegment(m[Len(m) - 1], m[Len(m)], value, m[Len(m)][2]))
    ELSE AtBracket(m, value, Bracket(m, value))

\* The piecewise result r, or lines 185-189 when the loop fell through.
OrLinear(r, g, value) == IF r.err = "fall" THEN LinearAngle(g, value) ELSE r

\* The mapping applied to the value clamped to [min, max].
CalculateAngleOfClamped(g, value) ==
    IF Truthy(g.angle_map)
    THEN OrLinear(Piecewise(g.angle_map.pts, PyMax(g.min, PyMin(g.max, value))),
                  g, value)
    ELSE LinearAngle(g, value)

CalculateAngle(g, value) ==
    IF Truthy(g.angle_map)
    THEN OrLinear(Piecewise(g.angle_map.pts, value), g, value)
    ELSE LinearAngle(g, value)

-----------------------------------------------------------------------------
(* Number formatting and rounding *)

\* n/d rounded to the nearest integer, halves to the even one: what
\* f'{x:.0f}' and round() do with a value a float holds exactly.
RoundHalfEven(a) ==
    LET q == a[1] \div a[2]
        r == a[1] - q * a[2]
    IN  IF 2 * r < a[2] THEN q
        ELSE IF 2 * r > a[2] THEN q + 1
        ELSE IF q % 2 = 0 THEN q ELSE q + 1

\* f'{x:.0f}': the integer printed.
Fmt0(a) == RoundHalfEven(a)

\* f'{x:.1f}': the number of tenths printed.
Fmt1(a) == RoundHalfEven(RMul(R(10), a))

Million == 1000000

Carry(q, f) == IF f = Million THEN <<q + 1, 0>> ELSE <<q, f>>

\* round(float(angle), 6), as <<integer part, millionths>>.
Round6(a) ==
    Carry(a[1] \div a[2],
          RoundHalfEven(Norm((a[1] - (a[1] \div a[2]) * a[2]) * Million, a[2])))

-----------------------------------------------------------------------------
(* _generate_needle_svg, _generate_colored_zones, the frame arc *)

\* `self._gauge_type == 'semicircular' and (self._max - self._min) == 360`
Polar(g) == g.gauge_type = "semicircular" /\ RSub(g.max, g.min) = R(360)

\* Lines 206-241.  The polar needle is a line to the end point at `angle`;
\* the other is a line straight up inside a group rotated by `angle`.
NeedleSvg(g, angle) ==
    IF Polar(g)
    THEN [polar |-> TRUE, line |-> <<angle>>, transform |-> <<>>,
          length |-> RMul(R(g.radius), g.needle_length)]
    ELSE [polar |-> FALSE, line |-> <<>>,
          transform |-> <<angle, g.center_x, g.center_y>>,
          length |-> RMul(R(g.radius), g.needle_length)]

\* The flags with the span compared as it is, its sign kept.
ArcFlagsOfSignedSpan(a0, a1) ==
    [large_arc |-> IF RLt(R(180), RSub(a1, a0)) THEN 1 ELSE 0,
     sweep     |-> IF RLt(R(0), RSub(a1, a0)) THEN 1 ELSE 0]

\* Lines 491-495 and 588-590: the two flags of an SVG arc.
ArcFlags(a0, a1) ==
    LET span_deg == RSub(a1, a0)
    IN  [large_arc |-> IF RLt(R(180), RAbs(span_deg)) THEN 1 ELSE 0,
         sweep     |-> IF RLt(R(0), span_deg) THEN 1 ELSE 0]

\* Lines 462-467.
Zones ==
    << <<(<<9, 10>>), R(30), "#2ecc71">>, <<R(31), R(50), "#f1c40f">>,
       <<R(51), R(90), "#f96a0b">>, <<R(91), R(99), "#d51d08">> >>

\* Lines 481-500: the arc from angle a0 to angle a1.
Arc(a0, a1, color, polar) ==
    [a0 |-> a0, a1 |-> a1, flags |-> ArcFlags(a0, a1), color |-> color,
     polar |-> polar]

\* Lines 474-500: one arc per zone; the first error raised ends the loop.
RECURSIVE ZoneArcs(_, _, _)
ZoneArc(g, k, out, a0, a1) ==
    IF ~a0.ok THEN a0
    ELSE IF ~a1.ok THEN a1
    ELSE ZoneArcs(g, k + 1,
             Append(out, Arc(a0.val, a1.val, Zones[k][3], FALSE)))

ZoneArcs(g, k, out) ==
    IF k > Len(Zones) THEN Ok(out)
    ELSE ZoneArc(g, k, out, CalculateAngle(g, Zones[k][1]),
                 CalculateAngle(g, Zones[k][2]))

ColoredZones(g) == IF ~g.colored_zones THEN Ok(<<>>) ELSE ZoneArcs(g, 1, <<>>)

\* sorted(set(pt[0] for pt in angle_map if min <= pt[0] <= max))
RECURSIVE Ascending(_)
Ascending(S) ==
    IF S = {} THEN <<>>
    ELSE LET lo == CHOOSE x \in S : \A y \in S : RLe(x, y)
         IN  <<lo>> \o Ascending(S \ {lo})

\* The values of all the breakpoints, none left out.
MajorsUnfiltered(g) ==
    Ascending({g.angle_map.pts[i][1] : i \in 1..Len(g.angle_map.pts)})

Majors(g) ==
    Ascending({g.angle_map.pts[i][1] : i \in
        {k \in 1..Len(g.angle_map.pts) :
            RLe(g.min, g.angle_map.pts[k][1]) /\ RLe(g.angle_map.pts[k][1], g.max)}})

\* Lines 566-597: the arc between the first and the last major.
FrameBetween(g, a0, a1) ==
    IF ~a0.ok THEN a0
    ELSE IF ~a1.ok THEN a1
    ELSE Ok(<<Arc(a0.val, a1.val, "#333", Polar(g))>>)

FrameOver(g, majors) ==
    IF majors = <<>> THEN Ok(<<>>)
    ELSE FrameBetween(g, CalculateAngle(g, majors[1]),
                      CalculateAngle(g, majors[Len(majors)]))

\* Lines 562-597: <<>> when no arc is drawn.
FrameArc(g) ==
    IF ~Truthy(g.angle_map) THEN Ok(<<>>) ELSE FrameOver(g, Majors(g))

-----------------------------------------------------------------------------
(* _generate_tick_marks *)

MinorBetween == 9
InnerMajor == 10
InnerMinor == 6
LabelsAimed == 12
HeadingStep == 30
HeadingTicks == 13

\* The tick placed top-relative whatever the gauge.
TickTopRelative(g, value, angle, major, label) ==
    [value |-> value, angle |-> angle, major |-> major, label |-> label,
     polar |-> FALSE,
     inner |-> g.radius - (IF major THEN InnerMajor ELSE InnerMinor)]

Tick(g, value, angle, major, label) ==
    [value |-> value, angle |-> angle, major |-> major, label |-> label,
     polar |-> Polar(g),
     inner |-> g.radius - (IF major THEN InnerMajor ELSE InnerMinor)]

\* No angle taken as drawn before.
NeverSeen(acc, angle) == FALSE

\* Lines 277-281, 330-333, 387-392: a tick whose rounded angle was drawn
\* before is skipped.  acc is [seen, out]: the rounded angles drawn so far
\* and the ticks.
Seen(acc, angle) == Round6(angle) \in acc.seen

Draw(acc, tick) ==
    [seen |-> acc.seen \cup {Round6(tick.angle)}, out |-> Append(acc.out, tick)]

\* Lines 326-354: the minor ticks j..9 between the majors v0 and v1.
RECURSIVE MinorTicks(_, _, _, _, _)
MinorTick(g, v0, v1, j, acc, v_minor, a_minor) ==
    IF ~a_minor.ok THEN a_minor
    ELSE MinorTicks(g, v0, v1, j + 1,
             IF Seen(acc, a_minor.val) THEN acc
             ELSE Draw(acc, Tick(g, v_minor, a_minor.val, FALSE, <<>>)))

MinorValue(v0, v1, j) ==
    RAdd(v0, RMul(Norm(j, MinorBetween + 1), RSub(v1, v0)))

MinorTicks(g, v0, v1, j, acc) ==
    IF j > MinorBetween THEN Ok(acc)
    ELSE MinorTick(g, v0, v1, j, acc, MinorValue(v0, v1, j),
                   CalculateAngle(g, MinorValue(v0, v1, j)))

\* Lines 274-354: the major tick idx and the minor ticks after it.
RECURSIVE MajorTicks(_, _, _, _)
AfterMinors(g, majors, idx, more) ==
    IF ~more.ok THEN more ELSE MajorTicks(g, majors, idx + 1, more.val)

MajorTick(g, majors, idx, acc, angle) ==
    IF ~angle.ok THEN angle
    ELSE IF Seen(acc, angle.val) THEN MajorTicks(g, majors, idx + 1, acc)
    ELSE AfterMinors(g, majors, idx,
             IF idx < Len(majors)
             THEN MinorTicks(g, majors[idx], majors[idx + 1], 1,
                      Draw(acc, Tick(g, majors[idx], angle.val, TRUE,
                                     <<Fmt0(majors[idx])>>)))
             ELSE Ok(Draw(acc, Tick(g, majors[idx], angle.val, TRUE,
                                    <<Fmt0(majors[idx])>>))))

MajorTicks(g, majors, idx, acc) ==
    IF idx > Len(majors) THEN Ok(acc.out)
    ELSE MajorTick(g, majors, idx, acc, CalculateAngle(g, majors[idx]))

\* Line 422: max(1, round(total_divs / 12))
AtLeastOne(n) == IF n < 1 THEN 1 ELSE n
LabelStep(total_divs) == AtLeastOne(RoundHalfEven(Norm(total_divs, LabelsAimed)))

\* Lines 425, 446: the label of tick i, <<>> when it has none.
LabelOf(i, total_divs, value) ==
    IF i % LabelStep(total_divs) = 0 \/ i = 0 \/ i = total_divs
    THEN <<Fmt0(value)>> ELSE <<>>

\* Lines 368-447: the ticks i..last of the heading and uniform policies.
\* given is TRUE when the values are min + 30 * i.
RECURSIVE PlainTicks(_, _, _, _, _, _)
PlainTick(g, given, total_divs, i, last, acc, value, angle) ==
    IF ~angle.ok THEN angle
    ELSE PlainTicks(g, given, total_divs, i + 1, last,
             IF RLt(value, g.min) \/ RLt(g.max, value) \/ Seen(acc, angle.val)
             THEN acc
             ELSE Draw(acc, Tick(g, value, angle.val, TRUE,
                                 LabelOf(i, total_divs, value))))

PlainValue(g, given, total_divs, i) ==
    IF given THEN RAdd(g.min, R(HeadingStep * i))
    ELSE RAdd(g.min, RMul(Norm(i, total_divs), RSub(g.max, g.min)))

PlainTicks(g, given, total_divs, i, last, acc) ==
    IF i > last THEN Ok(acc.out)
    ELSE IF ~given /\ total_divs = 0 THEN Raise("ZeroDivisionError")
    ELSE PlainTick(g, given, total_divs, i, last, acc,
                   PlainValue(g, given, total_divs, i),
                   CalculateAngle(g, PlainValue(g, given, total_divs, i)))

NoTicks == [seen |-> {}, out |-> <<>>]

MappedTicks(g, majors) ==
    IF majors = <<>> THEN Ok(<<>>) ELSE MajorTicks(g, majors, 1, NoTicks)

\* Lines 252-449.
TickMarks(g) ==
    IF ~g.show_ticks THEN Ok(<<>>)
    ELSE IF Truthy(g.angle_map) THEN MappedTicks(g, Majors(g))
    ELSE IF Polar(g)
         THEN PlainTicks(g, TRUE, HeadingTicks - 1, 0, HeadingTicks - 1, NoTicks)
    ELSE PlainTicks(g, FALSE, g.tick_count, 0, g.tick_count, NoTicks)

-----------------------------------------------------------------------------
(* _generate_svg, _create_gauge_container, __init__, set_value *)

\* Lines 532-551.
Background(g) ==
    IF g.background_base64 THEN "image"
    ELSE IF g.gauge_type = "circular" THEN "circle" ELSE "halfdisc"

\* The composer appending the needle before the ticks.
ComposeNeedleUnderTicks(g, angle, zones, frame, ticks) ==
    IF ~zones.ok THEN zones
    ELSE IF ~frame.ok THEN frame
    ELSE IF ~ticks.ok THEN ticks
    ELSE Ok([layers |-> <<"background">>
                    \o (IF zones.val # <<>> THEN <<"zones">> ELSE <<>>)
                    \o (IF frame.val # <<>> THEN <<"frame">> ELSE <<>>)
                    \o <<"needle">>
                    \o (IF g.show_ticks THEN <<"ticks">> ELSE <<>>)
                    \o (IF g.show_value THEN <<"value">> ELSE <<>>),
             background |-> Background(g),
             zones  |-> zones.val,
             frame  |-> frame.val,
             ticks  |-> ticks.val,
             needle |-> NeedleSvg(g, angle),
             value  |-> IF g.show_value THEN <<Fmt1(g.value)>> ELSE <<>>])

\* Lines 522-620: the layers in the order they are appended.
Compose(g, angle, zones, frame, ticks) ==
    IF ~zones.ok THEN zones
    ELSE IF ~frame.ok THEN frame
    ELSE IF ~ticks.ok THEN ticks
    ELSE Ok([layers |-> <<"background">>
                    \o (IF zones.val # <<>> THEN <<"zones">> ELSE <<>>)
                    \o (IF frame.val # <<>> THEN <<"frame">> ELSE <<>>)
                    \o (IF g.show_ticks THEN <<"ticks">> ELSE <<>>)
                    \o <<"needle">>
                    \o (IF g.show_value THEN <<"value">> ELSE <<>>),
             background |-> Background(g),
             zones  |-> zones.val,
             frame  |-> frame.val,
             ticks  |-> ticks.val,
             needle |-> NeedleSvg(g, angle),
             value  |-> IF g.show_value THEN <<Fmt1(g.value)>> ELSE <<>>])

GenerateSvg(g, angle) ==
    Compose(g, angle, ColoredZones(g), FrameArc(g),
            IF g.show_ticks THEN TickMarks(g) ELSE Ok(<<>>))

WithAngle(g, initial_angle) ==
    IF ~initial_angle.ok THEN initial_angle
    ELSE GenerateSvg(g, initial_angle.val)

\* Lines 629-643: the document handed to ui.html.
CreateGaugeContainer(g) == WithAngle(g, CalculateAngle(g, g.value))

\* Lines 57-135: the object __init__ builds from its arguments a, when it
\* gets to line 138.
NewGauge(a) ==
    [phase       |-> "built",
     attrs       |-> AttrsAfterInit,
     value       |-> Clamp(a.min_value, a.max_value, a.value),
     min         |-> a.min_value,
     max         |-> a.max_value,
     gauge_type  |-> a.gauge_type,
     size        |-> a.size,
     needle_length |-> a.needle_length,
     show_value  |-> a.show_value,
     show_ticks  |-> a.show_ticks,
     tick_count  |-> TickCountOf(a),
     angle_map   |-> IF Truthy(a.angle_map)
                     THEN MapOf(SortedByValue(a.angle_map.pts)) ELSE NoMap,
     center_x    |-> a.size \div 2,
     center_y    |-> a.size \div 2,
     radius      |-> a.size \div 2 - Margin,
     start_angle |-> IF a.gauge_type = "circular" THEN StartCircular
                     ELSE StartSemicircular,
     angle_range |-> IF a.gauge_type = "circular" THEN RangeCircular
                     ELSE RangeSemicircular,
     background_base64 |-> a.background_image = "readable",
     colored_zones     |-> a.min_value = R(0) /\ a.max_value = R(100)]

Handed(g, doc) ==
    IF ~doc.ok THEN doc ELSE Ok([gauge |-> g, document |-> doc.val])

Container(g) == Handed(g, CreateGaugeContainer(g))

\* __init__: the object and its document, or the exception it raises.
\* Line 90 reads self._angle_span when no angle map was given (lines 91-103
\* are never reached: the attribute is assigned nowhere); line 128 opens the
\* background file when os.path.exists says it is there.
Construct(a) ==
    IF ~Truthy(a.angle_map) /\ "_angle_span" \notin AttrsAtLine90
    THEN Raise("AttributeError")
    ELSE IF a.background_image = "unreadable" THEN Raise("PermissionError")
    ELSE Container(NewGauge(a))

\* The clamp applied to the sum of the old value and the argument.
SetValueAccumulating(g, value) ==
    [g EXCEPT !.value = Clamp(g.min, g.max, RAdd(g.value, value))]

\* The assignment that widens the range to admit the argument.
SetValueWidening(g, value) ==
    [g EXCEPT !.value = value, !.max = PyMax(g.max, value)]

\* Line 653: the object after set_value's assignment.
SetValueAssign(g, value) ==
    [g EXCEPT !.value = Clamp(g.min, g.max, value)]

\* Lines 660-673: the script handed to ui.run_javascript.
PatchFor(g, angle) ==
    [rotate |-> <<angle, g.center_x, g.center_y>>, text |-> Fmt1(g.value)]

\* Lines 662-671 as the page runs them: the needle group's transform is
\* set, and the value text when the element exists.
ApplyPatch(doc, p) ==
    [doc EXCEPT !.needle.transform = p.rotate,
                !.value = IF doc.value = <<>> THEN <<>> ELSE <<p.text>>]

\* The `value` property, lines 675-678.
ValueOf(g) == g.value

\* a reduced to [0, 360).
Mod360(a) == RSub(a, R(360 * (a[1] \div (360 * a[2]))))

\* The direction from the centre of an element placed at `angle`: the polar
\* convention puts it at (cos, -sin) of the angle, the top-relative one at
\* (cos, sin) of the angle less 90 degrees (lines 399-412, 479-488, 568-580).
BearingAt(polar, angle) ==
    Mod360(IF polar THEN RSub(R(90), angle) ELSE angle)

\* The direction the needle of the document is seen in, in degrees clockwise
\* from straight up.  The polar line ends at (cos, -sin) of its angle: 0 is
\* to the right and 90 is up (lines 208-210); the other line is drawn
\* straight up (line 230).  rotate(t, cx, cy) on the group turns its content
\* clockwise by t (lines 229 and 667).
Bearing(needle) ==
    Mod360(RAdd(IF needle.polar THEN RSub(R(90), needle.line[1]) ELSE R(0),
                IF needle.transform = <<>> THEN R(0)
                ELSE needle.transform[1]))

-----------------------------------------------------------------------------
(* The state machine *)

Ids == {"g1", "g2"}

Absent   == [phase |-> "absent"]
Failed   == [phase |-> "failed"]
NoCall   == [op |-> "none"]
NoDoc    == [layers |-> <<>>]
NoPatch  == [text |-> -1]
NoProbe  == [ok |-> FALSE, err |-> "not called"]

Init ==
    /\ gauge    = [i \in Ids |-> Absent]
    /\ kwargs   = [i \in Ids |-> NoCall]
    /\ lastCall = [i \in Ids |-> NoCall]
    /\ raised   = [i \in Ids |-> "none"]
    /\ document = [i \in Ids |-> NoDoc]
    /\ patch    = [i \in Ids |-> NoPatch]
    /\ emitted  = [i \in Ids |-> <<>>]
    /\ probe    = [i \in Ids |-> NoProbe]

\* Line 138 hands one document to ui.html, when __init__ gets there.
InitEmits(r) == IF r.ok THEN <<"html">> ELSE <<>>

\* set_value composing the document again before it sends the script.
SetValueRebuilds(angle) ==
    IF angle.ok THEN <<"html", "javascript">> ELSE <<>>

\* Lines 660-673 hand one script to ui.run_javascript, when line 656
\* returned an angle.
SetValueEmits(angle) == IF angle.ok THEN <<"javascript">> ELSE <<>>

\* The outcome r of the constructor call: the object and the document the
\* host holds, or the exception it sees.
Returned(i, r) ==
    /\ gauge'    = [gauge EXCEPT ![i] = IF r.ok THEN r.val.gauge ELSE Failed]
    /\ document' = [document EXCEPT ![i] = IF r.ok THEN r.val.document ELSE NoDoc]
    /\ raised'   = [raised EXCEPT ![i] = r.err]
    /\ emitted'  = [emitted EXCEPT ![i] = InitEmits(r)]

\* GaugeSVGFull(**a): the host builds instance i.
New(i, a) ==
    /\ gauge[i].phase = "absent"
    /\ lastCall[i].op = "none"
    /\ Returned(i, Construct(a))
    /\ lastCall' = [lastCall EXCEPT ![i] = [op |-> "__init__", args |-> a]]
    /\ kwargs'   = [kwargs EXCEPT ![i] = a]
    /\ UNCHANGED <<patch, probe>>

\* Lines 656-673 on the object g that line 653 left.
Patched(i, g, angle) ==
    /\ gauge'    = [gauge EXCEPT ![i] = g]
    /\ raised'   = [raised EXCEPT ![i] = angle.err]
    /\ emitted'  = [emitted EXCEPT ![i] = SetValueEmits(angle)]
    /\ patch'    = [patch EXCEPT ![i] =
                       IF angle.ok THEN PatchFor(g, angle.val) ELSE @]
    /\ document' = [document EXCEPT ![i] =
                       IF angle.ok THEN ApplyPatch(@, PatchFor(g, angle.val))
                       ELSE @]

Assigned(i, g) == Patched(i, g, CalculateAngle(g, g.value))

\* gauge.set_value(value) on instance i.  `repeat` records that the call
\* before it on this instance was set_value with the same argument.
SetValue(i, value) ==
    /\ gauge[i].phase = "built"
    /\ Assigned(i, SetValueAssign(gauge[i], value))
    /\ lastCall' = [lastCall EXCEPT ![i] =
                       [op |-> "set_value", value |-> value,
                        repeat |-> lastCall[i].op = "set_value"
                                   /\ lastCall[i].value = value]]
    /\ UNCHANGED <<kwargs, probe>>

\* gauge._calculate_angle(value) on instance i, called directly.
Evaluate(i, value) ==
    /\ gauge[i].phase = "built"
    /\ probe'    = [probe EXCEPT ![i] = CalculateAngle(gauge[i], value)]
    /\ lastCall' = [lastCall EXCEPT ![i] =
                       [op |-> "_calculate_angle", value |-> value]]
    /\ emitted'  = [emitted EXCEPT ![i] = <<>>]
    /\ UNCHANGED <<gauge, kwargs, raised, document, patch>>

-----------------------------------------------------------------------------
(* The inputs *)

MaxStep == 5
MaxMapLen == 3
DefaultSize == 220

\* The values the host passes: multiples of 25 from -25 up, one far out of
\* range, and two that one decimal place does not hold.
Values ==
    {R(25 * k) : k \in -1..MaxStep} \cup {R(400), <<101, 4>>, <<303, 4>>}

Ranges == {<<R(0), R(100)>>, <<R(0), R(360)>>, <<R(-50), R(50)>>,
           <<R(0), R(0)>>, <<R(100), R(0)>>}

AngleMaps ==
    {NoMap, MapOf(<<>>),
     MapOf(<<Pt(50, 10)>>),
     MapOf(<<Pt(100, 45), Pt(0, -45), Pt(50, 0)>>),
     MapOf(<<Pt(0, 180), Pt(180, 90), Pt(360, 0)>>),
     MapOf(<<Pt(0, 0), Pt(50, 10), Pt(50, 20), Pt(100, 30)>>),
     MapOf(<<Pt(200, 0), Pt(300, 90)>>),
     MapOf(<<Pt(0, -45), Pt(50, 45), Pt(100, 45)>>)}

ArgsOver(values, ranges, maps, types, backgrounds, flags, counts) ==
    [value : values, range : ranges, angle_map : maps, gauge_type : types,
     background_image : backgrounds,
     show_value : flags, show_ticks : flags, tick_count : counts,
     counter_clockwise : BOOLEAN]

\* The keyword arguments of one constructor call.
Kwargs(c) ==
    [value |-> c.value, min_value |-> c.range[1], max_value |-> c.range[2],
     gauge_type |-> c.gauge_type, background_image |-> c.background_image,
     size |-> DefaultSize, needle_length |-> <<3, 4>>,
     show_value |-> c.show_value, show_ticks |-> c.show_ticks,
     tick_count |-> c.tick_count, angle_map |-> c.angle_map,
     counter_clockwise |-> c.counter_clockwise]

Types == {"circular", "semicircular"}

\* Every range, map, type and initial value with the other arguments at
\* their defaults, every other argument varied on one range, and a tick
\* count of zero and a negative one.
Args ==
    {Kwargs(c) : c \in ArgsOver({R(-25), R(50), <<303, 4>>, R(400)}, Ranges,
                    AngleMaps, Types, {"None"}, {TRUE}, {<<>>})}
    \cup
    {Kwargs(c) : c \in ArgsOver({R(50)}, {<<R(0), R(100)>>},
                    {NoMap, MapOf(<<Pt(100, 45), Pt(0, -45), Pt(50, 0)>>)},
                    Types, {"None", "missing", "readable", "unreadable"},
                    BOOLEAN, {<<>>, <<4>>})}
    \cup
    {Kwargs(c) : c \in ArgsOver({R(50)}, {<<R(0), R(100)>>}, {NoMap}, Types,
                    {"None"}, {TRUE}, {<<0>>, <<-1>>})}

Next ==
    \/ \E a \in Args : New("g1", a)
    \/ \E v \in Values : SetValue("g1", v)

Spec == Init /\ [][Next]_vars

\* Two instances side by side.
PairArgs ==
    {Kwargs(c) : c \in ArgsOver({R(50)},
                    {<<R(0), R(100)>>, <<R(0), R(360)>>},
                    {NoMap, MapOf(<<Pt(100, 45), Pt(0, -45), Pt(50, 0)>>),
                     MapOf(<<Pt(0, 180), Pt(180, 90), Pt(360, 0)>>)},
                    {"semicircular"}, {"None"}, {TRUE}, {<<>>})}

PairValues == {R(-25), R(75), R(400)}

NextPair ==
    \/ \E i \in Ids, a \in PairArgs : New(i, a)
    \/ \E i \in Ids, v \in PairValues : SetValue(i, v)

SpecPair == Init /\ [][NextPair]_vars

\* _calculate_angle on its own, over every short angle map.
MapPoints == {Pt(x, y) : x \in {0, 50, 100}, y \in {-45, 45}}

RECURSIVE SeqsUpTo(_, _)
SeqsUpTo(S, n) ==
    IF n = 0 THEN {<<>>}
    ELSE SeqsUpTo(S, n - 1)
         \cup {Append(s, p) : s \in SeqsUpTo(S, n - 1), p \in S}

\* Four more maps: two segments of one slope, a step at 50, a full turn of
\* the dial and a full turn back.
LongMaps ==
    {MapOf(<<Pt(0, -45), Pt(50, 0), Pt(100, 45)>>),
     MapOf(<<Pt(0, -45), Pt(50, -45), Pt(50, 45), Pt(100, 45)>>),
     MapOf(<<Pt(0, 0), Pt(100, 360)>>),
     MapOf(<<Pt(0, 360), Pt(100, 0)>>)}

AngleArgs ==
    {Kwargs(c) : c \in ArgsOver({R(50)},
                    {<<R(0), R(100)>>, <<R(0), R(360)>>, <<R(0), R(0)>>},
                    {NoMap}, Types, {"None"}, {TRUE}, {<<>>})}
    \cup
    {Kwargs(c) : c \in ArgsOver({R(50)}, {<<R(0), R(100)>>},
                    {MapOf(m) : m \in SeqsUpTo(MapPoints, MaxMapLen)}
                        \cup LongMaps,
                    {"circular"}, {"None"}, {TRUE}, {<<>>})}

NextAngle ==
    \/ \E a \in AngleArgs : New("g1", a)
    \/ \E v \in Values : Evaluate("g1", v)

SpecAngle == Init /\ [][NextAngle]_vars

\* Two instances built from the same breakpoints: the second from the
\* breakpoints of the first in any order, of either type, over either range,
\* in either direction.
StepPoints == {Pt(0, -45), Pt(50, -45), Pt(50, 45), Pt(100, 45)}

ShortMaps ==
    {MapOf(<<p, q>>) : p \in StepPoints, q \in StepPoints}
    \cup {MapOf(<<p, q, r>>) : p \in StepPoints, q \in StepPoints,
                               r \in StepPoints}

FirstArgs ==
    {a \in {Kwargs(c) : c \in ArgsOver({R(50)}, {<<R(0), R(100)>>}, ShortMaps,
                             {"circular"}, {"None"}, {TRUE}, {<<>>})} :
        ~a.counter_clockwise}

SecondArgs ==
    {Kwargs(c) : c \in ArgsOver({R(50)}, {<<R(0), R(100)>>, <<R(0), R(360)>>},
                    ShortMaps, Types, {"None"}, {TRUE}, {<<>>})}

MapValues == {R(-25), <<303, 4>>, R(400)}

\* The number of times p occurs in the sequence s.
Count(s, p) == Cardinality({k \in DOMAIN s : s[k] = p})

\* t holds the elements of s, each as many times, in some order.
Reordered(s, t) ==
    /\ Len(s) = Len(t)
    /\ \A k \in DOMAIN s : Count(s, s[k]) = Count(t, s[k])

\* GaugeSVGFull(**a) for instance j, a.angle_map holding the breakpoints
\* instance i was built from.
NewReordered(j, i, a) ==
    /\ gauge[i].phase = "built"
    /\ lastCall[i].op = "__init__"
    /\ Reordered(a.angle_map.pts, kwargs[i].angle_map.pts)
    /\ New(j, a)

NextMaps ==
    \/ \E a \in FirstArgs : New("g1", a)
    \/ \E a \in SecondArgs : NewReordered("g2", "g1", a)
    \/ \E i \in Ids, v \in MapValues : Evaluate(i, v)

SpecMaps == Init /\ [][NextMaps]_vars

-----------------------------------------------------------------------------
(* Properties *)

IsBuilt(i) == gauge[i].phase = "built"

\* The argument of the last constructor or set_value call on instance i.
LastArgument(i) ==
    IF lastCall[i].op = "__init__" THEN lastCall[i].args.value
    ELSE lastCall[i].value

\* min when x is below it, max when x is above it, x otherwise.
Nearest(lo, hi, x) == IF RLt(x, lo) THEN lo ELSE IF RLt(hi, x) THEN hi ELSE x

\* C1: with min <= max, the value read through the `value` property is
\* within [min, max] in every state, whatever was passed to the
\* constructor and to set_value.
C1_ValueWithinBounds ==
    \A i \in Ids :
        (IsBuilt(i) /\ RLe(gauge[i].min, gauge[i].max))
            => /\ RLe(gauge[i].min, ValueOf(gauge[i]))
               /\ RLe(ValueOf(gauge[i]), gauge[i].max)

\* set_value was called with an argument above max and the value is max.
C1_Witness ==
    \E i \in Ids :
        /\ IsBuilt(i) /\ RLt(gauge[i].min, gauge[i].max)
        /\ lastCall[i].op = "set_value"
        /\ RLt(gauge[i].max, lastCall[i].value)
        /\ ValueOf(gauge[i]) = gauge[i].max

\* C2: with min < max, the value is min after an argument below min, max
\* after an argument above max and the argument itself otherwise; the
\* `value` property returns the clamp of the most recent call's argument,
\* the constructor's when set_value was never called.
C2_ClampToNearestBound ==
    \A i \in Ids :
        (IsBuilt(i) /\ RLt(gauge[i].min, gauge[i].max))
            => ValueOf(gauge[i])
                   = Nearest(gauge[i].min, gauge[i].max, LastArgument(i))

\* set_value was called with an argument below min and the value is min;
\* or with one inside the range, which is kept.
C2_Witness ==
    /\ \E i \in Ids :
        /\ IsBuilt(i) /\ RLt(gauge[i].min, gauge[i].max)
        /\ lastCall[i].op = "set_value"
        /\ RLt(lastCall[i].value, gauge[i].min)
        /\ ValueOf(gauge[i]) = gauge[i].min
        /\ document[i].value = <<Fmt1(gauge[i].min)>>

\* C3: a set_value(x) that follows a set_value(x) on the same instance emits
\* the patch the first one emitted and leaves the object, the document in
\* the page and the exception state as the first one left them.
C3_SetValueIdempotent ==
    [][\A i \in Ids :
          (lastCall'[i].op = "set_value" /\ lastCall'[i].repeat)
              => /\ patch'[i] = patch[i]
                 /\ gauge'[i] = gauge[i]
                 /\ document'[i] = document[i]
                 /\ raised'[i] = raised[i]]_vars

\* set_value was called twice in a row with the same in-range argument and
\* a patch was emitted.
C3_Witness ==
    \E i \in Ids :
        /\ IsBuilt(i)
        /\ lastCall[i].op = "set_value" /\ lastCall[i].repeat
        /\ RLt(gauge[i].min, lastCall[i].value)
        /\ RLt(lastCall[i].value, gauge[i].max)
        /\ patch[i] = PatchFor(gauge[i], CalculateAngle(gauge[i], lastCall[i].value).val)

\* Every attribute of the object but the current value.
Config(g) == [g EXCEPT !.value = R(0)]

\* The layers of the document that do not show the value.
StaticLayers(doc) ==
    [layers |-> doc.layers, background |-> doc.background, zones |-> doc.zones,
     frame |-> doc.frame, ticks |-> doc.ticks]

\* C4: a set_value call on one instance changes no configuration attribute
\* of that instance (min, max, gauge type, size, tick count, angle map, zone
\* flag, background payload, start angle, angle range) and no static layer
\* of its document (background, zones, frame, ticks), and changes nothing of
\* any other instance.
C4_SetValueFrame ==
    [][\A i \in Ids :
          (lastCall'[i] # lastCall[i] /\ lastCall'[i].op = "set_value")
              => /\ Config(gauge'[i]) = Config(gauge[i])
                 /\ StaticLayers(document'[i]) = StaticLayers(document[i])
                 /\ \A j \in Ids \ {i} :
                        /\ gauge'[j] = gauge[j]
                        /\ document'[j] = document[j]
                        /\ patch'[j] = patch[j]
                        /\ raised'[j] = raised[j]]_vars

\* Two instances are built; set_value has moved one of them and the other
\* still shows the value it was constructed with.
C4_Witness ==
    \E i \in Ids, j \in Ids :
        /\ i # j /\ IsBuilt(i) /\ IsBuilt(j)
        /\ lastCall[i].op = "set_value"
        /\ lastCall[j].op = "__init__"
        /\ ValueOf(gauge[i]) # ValueOf(gauge[j])
        /\ document[i].ticks # <<>>
        /\ document[i].needle.transform[1] # document[j].needle.transform[1]

\* C5: no constructor call with min < max (angle map absent, empty or
\* given; either gauge type; either direction) and no set_value call raises.
C5_NeverRaises ==
    \A i \in Ids :
        /\ (lastCall[i].op = "__init__"
              /\ RLt(lastCall[i].args.min_value, lastCall[i].args.max_value)
              /\ lastCall[i].args.background_image = "None")
               => raised[i] = "none"
        /\ lastCall[i].op = "set_value" => raised[i] = "none"

\* C6: with min = max and no angle map the needle angle is computed without
\* raising.
C6_ZeroWidthDoesNotRaise ==
    \A i \in Ids :
        (lastCall[i].op = "__init__"
           /\ lastCall[i].args.min_value = lastCall[i].args.max_value
           /\ ~Truthy(lastCall[i].args.angle_map)
           /\ lastCall[i].args.background_image = "None")
            => /\ raised[i] = "none"
               /\ IsBuilt(i)
               /\ CalculateAngle(gauge[i], ValueOf(gauge[i])).ok

\* C7: no gauge is built from a range with min >= max.
C7_InvalidRangeRefused ==
    \A i \in Ids : IsBuilt(i) => RLt(gauge[i].min, gauge[i].max)

\* The angle the document's needle is drawn at.
NeedleAngle(doc) ==
    IF doc.needle.polar THEN doc.needle.line[1] ELSE doc.needle.transform[1]

\* The constructor call on instance i asked for the linear mapping over a
\* range with min < max.
LinearCall(i) ==
    /\ lastCall[i].op = "__init__"
    /\ ~Truthy(lastCall[i].args.angle_map)
    /\ RLt(lastCall[i].args.min_value, lastCall[i].args.max_value)

\* startAngle and angleRange of a gauge type, and the sign of the direction.
StartOf(type) == IF type = "circular" THEN StartCircular ELSE StartSemicircular
RangeOf(type) == IF type = "circular" THEN RangeCircular ELSE RangeSemicircular
SignOf(ccw)   == IF ccw THEN -1 ELSE 1

InSweep(a, type) ==
    \/ RLe(R(StartOf(type)), a) /\ RLe(a, R(StartOf(type) + RangeOf(type)))
    \/ RLe(R(StartOf(type) + RangeOf(type)), a) /\ RLe(a, R(StartOf(type)))

\* C8: in linear mode, for every v in [min, max] the angle lies between
\* startAngle and startAngle + angleRange, and the angle is non-decreasing
\* in v when the effective range is positive and non-increasing when it is
\* negative, for both gauge types and both directions.
C8_LinearWithinSweepMonotonic ==
    \A i \in Ids :
        LinearCall(i) =>
            /\ IsBuilt(i)
            /\ \A v \in Values, w \in Values :
                  (RLe(gauge[i].min, v) /\ RLe(v, w) /\ RLe(w, gauge[i].max))
                      => /\ CalculateAngle(gauge[i], v).ok
                         /\ CalculateAngle(gauge[i], w).ok
                         /\ InSweep(CalculateAngle(gauge[i], v).val,
                                    gauge[i].gauge_type)
                         /\ IF RangeOf(gauge[i].gauge_type)
                                 * SignOf(lastCall[i].args.counter_clockwise) > 0
                            THEN RLe(CalculateAngle(gauge[i], v).val,
                                     CalculateAngle(gauge[i], w).val)
                            ELSE RLe(CalculateAngle(gauge[i], w).val,
                                     CalculateAngle(gauge[i], v).val)

\* C9: in linear mode the needle of a gauge constructed at value v is at
\* startAngle + ((v - min) / (max - min)) * angleRange * (-1 if
\* counterClockwise else 1), with 270 and +360 for circular and 180 and -180
\* for semicircular.
C9_LinearFormula ==
    \A i \in Ids :
        LinearCall(i) =>
            /\ IsBuilt(i)
            /\ NeedleAngle(document[i]) =
                   RAdd(R(StartOf(lastCall[i].args.gauge_type)),
                        RMul(RDiv(RSub(ValueOf(gauge[i]), gauge[i].min),
                                  RSub(gauge[i].max, gauge[i].min)),
                             R(RangeOf(lastCall[i].args.gauge_type)
                                 * SignOf(lastCall[i].args.counter_clockwise))))

\* The breakpoints of instance i whose value is x.
At(i, x) ==
    {k \in 1..Len(gauge[i].angle_map.pts) : gauge[i].angle_map.pts[k][1] = x}

\* _calculate_angle was just called on instance i, which has an angle map.
Probed(i) ==
    /\ IsBuilt(i)
    /\ lastCall[i].op = "_calculate_angle"
    /\ Truthy(gauge[i].angle_map)

\* C10 as stated: for every breakpoint (x, a) of the angle map, two
\* breakpoints with the same value included, _calculate_angle(x) returns a.
C10_EveryBreakpointExact ==
    \A i \in Ids :
        Probed(i) =>
            \A k \in At(i, lastCall[i].value) :
                probe[i] = Ok(gauge[i].angle_map.pts[k][2])

\* C10 as amended: _calculate_angle(x) returns a for a breakpoint (x, a)
\* whose value no other breakpoint has; when several breakpoints have the
\* value x it returns the angle of one of them.
C10_BreakpointAngle ==
    \A i \in Ids :
        (Probed(i) /\ At(i, lastCall[i].value) # {})
            => \E k \in At(i, lastCall[i].value) :
                   probe[i] = Ok(gauge[i].angle_map.pts[k][2])

\* _calculate_angle was called at the middle one of three breakpoints with
\* three different values and returned its angle, which differs from the
\* angles of the other two.
C10_Witness ==
    \E i \in Ids :
        /\ Probed(i)
        /\ Len(gauge[i].angle_map.pts) = 3
        /\ RLt(gauge[i].angle_map.pts[1][1], gauge[i].angle_map.pts[2][1])
        /\ RLt(gauge[i].angle_map.pts[2][1], gauge[i].angle_map.pts[3][1])
        /\ lastCall[i].value = gauge[i].angle_map.pts[2][1]
        /\ probe[i] = Ok(gauge[i].angle_map.pts[2][2])
        /\ gauge[i].angle_map.pts[1][2] # gauge[i].angle_map.pts[2][2]
        /\ gauge[i].angle_map.pts[3][2] # gauge[i].angle_map.pts[2][2]


\* The sorted breakpoints of instance i, and the argument of the last
\* _calculate_angle call.
Pts(i) == gauge[i].angle_map.pts
Asked(i) == lastCall[i].value

\* y0 + (value - x0) / (x1 - x0) * (y1 - y0)
Interpolated(p0, p1, value) ==
    RAdd(p0[2], RMul(RDiv(RSub(value, p0[1]), RSub(p1[1], p0[1])),
                     RSub(p1[2], p0[2])))

\* The consecutive pairs (k, k+1) of instance i with x0 <= value <= x1 and
\* x0 < x1.
Brackets(i, value) ==
    {k \in 1..(Len(Pts(i)) - 1) :
        /\ RLe(Pts(i)[k][1], value) /\ RLe(value, Pts(i)[k + 1][1])
        /\ RLt(Pts(i)[k][1], Pts(i)[k + 1][1])}

\* _calculate_angle was just called on instance i, whose map has two
\* breakpoints or more, at a value strictly between the first and the last.
ProbedInside(i) ==
    /\ Probed(i) /\ Len(Pts(i)) >= 2
    /\ RLt(Pts(i)[1][1], Asked(i))
    /\ RLt(Asked(i), Pts(i)[Len(Pts(i))][1])

OnLine(p0, p1, value, angle) ==
    RMul(RSub(angle, p0[2]), RSub(p1[1], p0[1]))
        = RMul(RSub(value, p0[1]), RSub(p1[2], p0[2]))

ProbedBelow(i) ==
    Probed(i) /\ Len(Pts(i)) >= 2 /\ RLt(Asked(i), Pts(i)[1][1])

ProbedAbove(i) ==
    Probed(i) /\ Len(Pts(i)) >= 2 /\ RLt(Pts(i)[Len(Pts(i))][1], Asked(i))

\* C12 as stated: below the first breakpoint the angle returned is on the
\* line through the first two breakpoints, above the last it is on the line
\* through the last two, whatever the map of two breakpoints or more.
C12_ExtendsEndSegments ==
    \A i \in Ids :
        /\ ProbedBelow(i) =>
               /\ probe[i].ok
               /\ OnLine(Pts(i)[1], Pts(i)[2], Asked(i), probe[i].val)
        /\ ProbedAbove(i) =>
               /\ probe[i].ok
               /\ OnLine(Pts(i)[Len(Pts(i)) - 1], Pts(i)[Len(Pts(i))],
                         Asked(i), probe[i].val)

\* C12 as amended: as stated when the two breakpoints of the end segment
\* have different values; when the first two have the same value the angle
\* below them is the first breakpoint's, and when the last two have the same
\* value the angle above them is the last breakpoint's.
C12_Extrapolates ==
    \A i \in Ids :
        /\ ProbedBelow(i) =>
               /\ probe[i].ok
               /\ IF Pts(i)[1][1] # Pts(i)[2][1]
                  THEN OnLine(Pts(i)[1], Pts(i)[2], Asked(i), probe[i].val)
                  ELSE probe[i].val = Pts(i)[1][2]
        /\ ProbedAbove(i) =>
               /\ probe[i].ok
               /\ IF Pts(i)[Len(Pts(i)) - 1][1] # Pts(i)[Len(Pts(i))][1]
                  THEN OnLine(Pts(i)[Len(Pts(i)) - 1], Pts(i)[Len(Pts(i))],
                              Asked(i), probe[i].val)
                  ELSE probe[i].val = Pts(i)[Len(Pts(i))][2]

\* The map (0,-45), (50,0), (100,45) was asked at 400, beyond its last
\* breakpoint, and gave 315, beyond every breakpoint's angle.
C12_Witness ==
    \E i \in Ids :
        /\ ProbedAbove(i)
        /\ Pts(i) = <<Pt(0, -45), Pt(50, 0), Pt(100, 45)>>
        /\ Asked(i) = R(400)
        /\ probe[i] = Ok(R(315))


\* _calculate_angle was just called on both instances with the same value.
BothProbed ==
    /\ Probed("g1") /\ Probed("g2")
    /\ Asked("g1") = Asked("g2")

\* No two breakpoints of the sequence s have the same value.
DistinctValues(s) ==
    \A k \in DOMAIN s : \A l \in DOMAIN s : s[k][1] = s[l][1] => k = l

\* C13 as stated: two gauges built from the same collection of breakpoints,
\* passed in any two orders, return the same angle for every value.
C13_AnyOrderSameAngle ==
    (BothProbed /\ Reordered(kwargs["g1"].angle_map.pts,
                             kwargs["g2"].angle_map.pts))
        => probe["g1"] = probe["g2"]

\* C13 as amended: two gauges built from the same collection of breakpoints,
\* no two of which have the same value, passed in any two orders, return the
\* same angle for every value.
C13_OrderOfDistinctValues ==
    (BothProbed /\ Reordered(kwargs["g1"].angle_map.pts,
                             kwargs["g2"].angle_map.pts)
                /\ DistinctValues(kwargs["g1"].angle_map.pts))
        => /\ probe["g1"] = probe["g2"]
           /\ probe["g1"].ok

\* Three breakpoints of three values were passed to one gauge with the
\* largest value first and to the other in ascending order, and both gauges
\* returned the same angle at 75.75.
C13_Witness ==
    /\ BothProbed
    /\ kwargs["g1"].angle_map.pts = <<Pt(100, 45), Pt(0, -45), Pt(50, 45)>>
    /\ kwargs["g2"].angle_map.pts = <<Pt(0, -45), Pt(50, 45), Pt(100, 45)>>
    /\ Asked("g1") = <<303, 4>>
    /\ probe["g1"] = Ok(R(45))
    /\ probe["g2"] = Ok(R(45))

\* C14: two gauges built with the same non-empty angle map return the same
\* angle for every value, whatever their gauge types, directions and
\* ranges, and the angle comes from the map: the default mapping of lines
\* 185-189, which raises in a gauge that has a map, is reached for no value.
C14_MapOverridesLinear ==
    (BothProbed /\ kwargs["g1"].angle_map = kwargs["g2"].angle_map)
        => /\ probe["g1"] = probe["g2"]
           /\ probe["g1"].ok
           /\ probe["g1"] = Piecewise(SortedByValue(kwargs["g1"].angle_map.pts),
                                      Asked("g1"))

\* A circular clockwise gauge over 0..100 and a semicircular counter-clockwise
\* one over 0..360 have the same map and returned the same angle at 400,
\* a value outside the range of the first.
C14_Witness ==
    /\ BothProbed
    /\ kwargs["g1"].angle_map = kwargs["g2"].angle_map
    /\ DistinctValues(kwargs["g1"].angle_map.pts)
    /\ gauge["g1"].gauge_type = "circular"
    /\ gauge["g2"].gauge_type = "semicircular"
    /\ ~kwargs["g1"].counter_clockwise /\ kwargs["g2"].counter_clockwise
    /\ gauge["g1"].max = R(100) /\ gauge["g2"].max = R(360)
    /\ Asked("g1") = R(400)
    /\ probe["g1"].ok /\ probe["g1"] = probe["g2"]
    /\ probe["g1"].val # gauge["g1"].angle_map.pts[Len(Pts("g1"))][2]


\* The constructor call on instance i asked for ticks, without an angle map,
\* over a range with min < max.
PlainTicksCall(i) ==
    /\ LinearCall(i)
    /\ lastCall[i].args.show_ticks
    /\ lastCall[i].args.background_image = "None"

SpanOf(a) == RSub(a.max_value, a.min_value)

\* C15: a gauge without an angle map whose span max - min is 360, of either
\* type and whatever tick count was asked for, has exactly 13 ticks, at
\* min, min + 30, ..., min + 360, each with a label.
C15_FullTurnTicks ==
    \A i \in Ids :
        (PlainTicksCall(i) /\ SpanOf(lastCall[i].args) = R(360))
            => /\ IsBuilt(i)
               /\ Len(document[i].ticks) = 13
               /\ \A k \in 1..13 :
                      /\ document[i].ticks[k].value
                             = RAdd(gauge[i].min, R(30 * (k - 1)))
                      /\ document[i].ticks[k].label # <<>>

\* tickCount as the claim gives it: the number asked for, 12 for a
\* semicircular and 10 for a circular gauge when none was.
Divisions(a) ==
    IF a.tick_count # <<>> THEN a.tick_count[1]
    ELSE IF a.gauge_type = "semicircular" THEN 12 ELSE 10

\* The constructor call on instance i falls under the uniform policy with
\* tickCount >= 1.
UniformCall(i) ==
    /\ PlainTicksCall(i)
    /\ SpanOf(lastCall[i].args) # R(360)
    /\ Divisions(lastCall[i].args) >= 1

\* C16: under the uniform policy with tickCount = n >= 1 there are exactly
\* n + 1 ticks, at min + i * (max - min) / n for i = 0..n.
C16_UniformTicks ==
    \A i \in Ids :
        UniformCall(i)
            => /\ IsBuilt(i)
               /\ Len(document[i].ticks) = Divisions(lastCall[i].args) + 1
               /\ \A k \in 1..(Divisions(lastCall[i].args) + 1) :
                      document[i].ticks[k].value
                          = RAdd(gauge[i].min,
                                 RMul(Norm(k - 1, Divisions(lastCall[i].args)),
                                      SpanOf(lastCall[i].args)))

\* labelStep = max(1, round(totalDivisions / 12))
StepOfLabels(n) ==
    IF RoundHalfEven(Norm(n, 12)) < 1 THEN 1 ELSE RoundHalfEven(Norm(n, 12))

\* C17: under the uniform policy the tick with index i of 0..totalDivisions
\* has a label if and only if i is a multiple of labelStep or i = 0 or
\* i = totalDivisions, and the label is the tick's value rounded to an
\* integer.
C17_UniformLabels ==
    \A i \in Ids :
        UniformCall(i)
            => /\ IsBuilt(i)
               /\ \A k \in DOMAIN document[i].ticks :
                      IF \/ (k - 1) % StepOfLabels(Divisions(lastCall[i].args)) = 0
                         \/ k - 1 = 0
                         \/ k - 1 = Divisions(lastCall[i].args)
                      THEN document[i].ticks[k].label
                               = <<RoundHalfEven(document[i].ticks[k].value)>>
                      ELSE document[i].ticks[k].label = <<>>


\* The document a constructor call with the configuration of instance i and
\* its current value emits.
Fresh(i) == CreateGaugeContainer(gauge[i]).val

\* C18: after any sequence of set_value calls the document in the page,
\* patches applied, shows the needle in the direction and the value text
\* that the document of a fresh construction at the last value shows, for
\* the rotated needle and for the polar one.
C18_PatchedAsFresh ==
    \A i \in Ids :
        (IsBuilt(i) /\ lastCall[i].op = "set_value" /\ raised[i] = "none")
            => /\ Bearing(document[i].needle) = Bearing(Fresh(i).needle)
               /\ document[i].value = Fresh(i).value


\* The needle is seen in the upper half of the dial: from left (270) through
\* straight up (0) to right (90).
UpperHalf(b) == RLe(R(270), b) \/ RLe(b, R(90))

\* C19: the needle of a semicircular gauge in linear mode, of any span, is
\* seen to the left at value = min, straight up at the midpoint and to the
\* right at value = max, and in the upper half of the dial at every value.
C19_SemicircularSweep ==
    \A i \in Ids :
        (LinearCall(i) /\ lastCall[i].args.gauge_type = "semicircular"
                       /\ lastCall[i].args.background_image = "None")
            => /\ IsBuilt(i)
               /\ UpperHalf(Bearing(document[i].needle))
               /\ ValueOf(gauge[i]) = gauge[i].min
                      => Bearing(document[i].needle) = R(270)
               /\ RAdd(ValueOf(gauge[i]), ValueOf(gauge[i]))
                          = RAdd(gauge[i].min, gauge[i].max)
                      => Bearing(document[i].needle) = R(0)
               /\ ValueOf(gauge[i]) = gauge[i].max
                      => Bearing(document[i].needle) = R(90)

\* C20: the needle of a clockwise circular gauge in linear mode is seen
\* straight up at value = min and turned clockwise from there by the
\* fraction (value - min) / (max - min) of a full turn.
C20_CircularSweep ==
    \A i \in Ids :
        (LinearCall(i) /\ lastCall[i].args.gauge_type = "circular"
                       /\ ~lastCall[i].args.counter_clockwise
                       /\ lastCall[i].args.background_image = "None")
            => /\ IsBuilt(i)
               /\ Bearing(document[i].needle)
                      = Mod360(RMul(R(360),
                                    RDiv(RSub(ValueOf(gauge[i]), gauge[i].min),
                                         RSub(gauge[i].max, gauge[i].min))))


\* The constructor call on instance i gave a non-empty angle map and no
\* readable background file: no path, the path of no file, or the path of
\* a file that open() refuses.
NoReadableBackground(i) ==
    /\ lastCall[i].op = "__init__"
    /\ Truthy(lastCall[i].args.angle_map)
    /\ lastCall[i].args.background_image \in {"None", "missing", "unreadable"}

\* C21: a constructor call whose background path is absent, names no file
\* or names a file that cannot be read raises nothing and emits a document
\* with the vector background, the disc of a circular gauge or the half-disc
\* of a semicircular one.
C21_BackgroundFallsBack ==
    \A i \in Ids :
        NoReadableBackground(i)
            => /\ raised[i] = "none"
               /\ IsBuilt(i)
               /\ document[i].background
                      = IF gauge[i].gauge_type = "circular" THEN "circle"
                        ELSE "halfdisc"


\* The order of the layers, bottom to top.
LayerOrder == <<"background", "zones", "frame", "ticks", "needle", "value">>

RankOf(layer) == CHOOSE k \in DOMAIN LayerOrder : LayerOrder[k] = layer

\* The number of layers of the document called `layer`.
Layers(doc, layer) ==
    Cardinality({k \in DOMAIN doc.layers : doc.layers[k] = layer})

\* C22: in the document of every gauge, as emitted and after every patch,
\* the layers present are in the order background, zones, frame, ticks,
\* needle, value label; there is exactly one background and one needle, and
\* one value label when show_value is on and none when it is off.
C22_LayerOrder ==
    \A i \in Ids :
        IsBuilt(i) =>
            /\ \A k \in DOMAIN document[i].layers :
                   /\ document[i].layers[k] \in
                          {LayerOrder[r] : r \in DOMAIN LayerOrder}
                   /\ \A l \in DOMAIN document[i].layers :
                          k < l => RankOf(document[i].layers[k])
                                       < RankOf(document[i].layers[l])
            /\ Layers(document[i], "background") = 1
            /\ Layers(document[i], "needle") = 1
            /\ Layers(document[i], "value")
                   = IF gauge[i].show_value THEN 1 ELSE 0

\* A gauge whose document has all six layers, with zone arcs, a frame arc
\* and ticks in them, after a set_value patched it.
C22_Witness ==
    \E i \in Ids :
        /\ IsBuilt(i)
        /\ lastCall[i].op = "set_value"
        /\ document[i].layers = LayerOrder
        /\ document[i].zones # <<>> /\ document[i].frame # <<>>
        /\ document[i].ticks # <<>>


\* C23: a constructor call that returns hands exactly one full document to
\* the page and no script; every set_value call on the object hands exactly
\* one script (needle and label) and no document, within the call; no script
\* exists for an instance that has no document in the page.
C23_OneDocumentThenPatches ==
    \A i \in Ids :
        /\ (lastCall[i].op = "__init__" /\ IsBuilt(i))
               => /\ emitted[i] = <<"html">>
                  /\ document[i] # NoDoc
                  /\ patch[i] = NoPatch
        /\ lastCall[i].op = "set_value"
               => /\ emitted[i] = <<"javascript">>
                  /\ patch[i] = PatchFor(gauge[i],
                         CalculateAngle(gauge[i], ValueOf(gauge[i])).val)
                  /\ document[i].needle.transform = patch[i].rotate
        /\ patch[i] # NoPatch => (IsBuilt(i) /\ document[i] # NoDoc)
        /\ ~IsBuilt(i) => (document[i] = NoDoc /\ patch[i] = NoPatch)

\* Two set_value calls in a row with different arguments: the second handed
\* one script to the page, which shows its value.
C23_Witness ==
    \E i \in Ids :
        /\ IsBuilt(i)
        /\ lastCall[i].op = "set_value" /\ ~lastCall[i].repeat
        /\ emitted[i] = <<"javascript">>
        /\ patch[i].text = Fmt1(lastCall[i].value)
        /\ document[i].value = <<patch[i].text>>
        /\ ~document[i].needle.polar


\* The distinct breakpoint values of instance i that lie in [min, max].
InRange(i) ==
    {x \in {Pts(i)[k][1] : k \in DOMAIN Pts(i)} :
        RLe(gauge[i].min, x) /\ RLe(x, gauge[i].max)}

\* x and y are consecutive values of InRange(i).
Neighbours(i, x, y) ==
    /\ RLt(x, y)
    /\ ~\E z \in InRange(i) : RLt(x, z) /\ RLt(z, y)

\* The ticks the mapped policy is to give: a labelled major at every value
\* of InRange(i) and 9 unlabelled minors, evenly spaced by value, between
\* two consecutive ones.
MappedTicksDue(i) ==
    {[value |-> x, major |-> TRUE, label |-> <<RoundHalfEven(x)>>] :
        x \in InRange(i)}
    \cup
    {[value |-> RAdd(xy[1], RMul(Norm(j, 10), RSub(xy[2], xy[1]))),
      major |-> FALSE, label |-> <<>>] :
        xy \in {p \in InRange(i) \X InRange(i) : Neighbours(i, p[1], p[2])},
        j \in 1..9}

\* The ticks of the document of instance i, without their geometry.
TicksDrawn(i) ==
    {[value |-> document[i].ticks[k].value,
      major |-> document[i].ticks[k].major,
      label |-> document[i].ticks[k].label] : k \in DOMAIN document[i].ticks}

\* The angles, rounded to 6 places, of the ticks that are due.
AnglesDue(i) ==
    {Round6(CalculateAngle(gauge[i], t.value).val) : t \in MappedTicksDue(i)}

\* Instance i has an angle map and shows ticks.
MappedGauge(i) ==
    IsBuilt(i) /\ Truthy(gauge[i].angle_map) /\ gauge[i].show_ticks

\* C24 as stated: with an angle map the ticks are exactly one labelled
\* major for every distinct breakpoint value in [min, max] and 9 unlabelled
\* minors between each consecutive pair of them, k + 9(k-1) ticks for k
\* majors, and none when no breakpoint is in range.
C24_MappedTicksExact ==
    \A i \in Ids :
        MappedGauge(i) =>
            /\ TicksDrawn(i) = MappedTicksDue(i)
            /\ Len(document[i].ticks) = Cardinality(MappedTicksDue(i))
            /\ Len(document[i].ticks)
                   = IF InRange(i) = {} THEN 0
                     ELSE 10 * Cardinality(InRange(i)) - 9

\* C24 as amended: with an angle map every tick is a labelled major at a
\* distinct breakpoint value in [min, max] or one of the 9 unlabelled minors
\* between two consecutive ones, each at most once, so none is emitted when
\* no breakpoint is in range; and they are all there, k + 9(k-1) ticks for k
\* majors, when no two of them have the same angle rounded to 6 places.
C24_MappedTicks ==
    \A i \in Ids :
        MappedGauge(i) =>
            /\ TicksDrawn(i) \subseteq MappedTicksDue(i)
            /\ Len(document[i].ticks) = Cardinality(TicksDrawn(i))
            /\ Cardinality(AnglesDue(i)) = Cardinality(MappedTicksDue(i))
                   => /\ TicksDrawn(i) = MappedTicksDue(i)
                      /\ Len(document[i].ticks)
                             = IF InRange(i) = {} THEN 0
                               ELSE 10 * Cardinality(InRange(i)) - 9

\* A gauge over 0..100 with breakpoints at 0, 50 and 100 and three different
\* angles has 21 ticks; its range does not span 360.
C24_Witness ==
    \E i \in Ids :
        /\ MappedGauge(i)
        /\ Cardinality(InRange(i)) = 3
        /\ Cardinality(AnglesDue(i)) = 21
        /\ Len(document[i].ticks) = 21
        /\ TicksDrawn(i) = MappedTicksDue(i)


\* C25: in the document of every gauge no two ticks, major or minor, have
\* the same angle rounded to 6 places, and the ticks are in ascending order
\* of their values.
C25_TicksDistinctAscending ==
    \A i \in Ids :
        IsBuilt(i) =>
            \A k \in DOMAIN document[i].ticks :
                \A l \in DOMAIN document[i].ticks :
                    k < l =>
                        /\ Round6(document[i].ticks[k].angle)
                               # Round6(document[i].ticks[l].angle)
                        /\ RLt(document[i].ticks[k].value,
                               document[i].ticks[l].value)

\* A gauge whose map is flat after its second breakpoint: 21 ticks are due,
\* the 10 that fall on the angle of the second major were dropped, and the
\* 11 emitted are majors and minors.
C25_Witness ==
    \E i \in Ids :
        /\ MappedGauge(i)
        /\ Cardinality(MappedTicksDue(i)) = 21
        /\ Cardinality(AnglesDue(i)) = 11
        /\ Len(document[i].ticks) = 11
        /\ \E k \in DOMAIN document[i].ticks : ~document[i].ticks[k].major


\* C26: in the document of every gauge no two ticks are at the same place
\* of the dial: their angles are not congruent modulo 360.
C26_TicksApartOnDial ==
    \A i \in Ids :
        IsBuilt(i) =>
            \A k \in DOMAIN document[i].ticks :
                \A l \in DOMAIN document[i].ticks :
                    k < l => Mod360(document[i].ticks[k].angle)
                                 # Mod360(document[i].ticks[l].angle)


\* The last breakpoint of instance i and the one before it.
LastPt(i) == Pts(i)[Len(Pts(i))]
BeforeLastPt(i) == Pts(i)[Len(Pts(i)) - 1]

\* The call falls in the first case of the piecewise mapping, value <=
\* first, or in the second, value >= last.
AtOrBelowFirst(i) == Len(Pts(i)) >= 2 /\ RLe(Asked(i), Pts(i)[1][1])
AtOrAboveLast(i) ==
    Len(Pts(i)) >= 2 /\ ~AtOrBelowFirst(i) /\ RLe(LastPt(i)[1], Asked(i))

\* The first pair of the map that holds the value, for a value strictly
\* inside the map.
FirstHolding(i) ==
    {k \in 1..(Len(Pts(i)) - 1) :
        /\ ~AtOrBelowFirst(i) /\ ~AtOrAboveLast(i)
        /\ RLe(Pts(i)[k][1], Asked(i)) /\ RLe(Asked(i), Pts(i)[k + 1][1])
        /\ \A j \in 1..(k - 1) :
               ~(RLe(Pts(i)[j][1], Asked(i)) /\ RLe(Asked(i), Pts(i)[j + 1][1]))}

\* What C27 and its amendment share: the mapping returns an angle for every
\* value; a single breakpoint gives its angle; below the first breakpoint and
\* inside the map a pair with x1 = x0 gives its y0.
DegenerateCommon(i) ==
    /\ probe[i].ok
    /\ Len(Pts(i)) = 1 => probe[i].val = Pts(i)[1][2]
    /\ (AtOrBelowFirst(i) /\ Pts(i)[1][1] = Pts(i)[2][1])
           => probe[i].val = Pts(i)[1][2]
    /\ \A k \in FirstHolding(i) :
           Pts(i)[k][1] = Pts(i)[k + 1][1] => probe[i].val = Pts(i)[k][2]

\* C27 as stated: the piecewise mapping returns an angle for every value;
\* a single breakpoint gives its angle; and whenever the pair used has
\* x1 = x0, below the first breakpoint, above the last and inside alike, the
\* angle is y0 of that pair.
C27_DegenerateReturnsY0 ==
    \A i \in Ids :
        Probed(i) =>
            /\ DegenerateCommon(i)
            /\ (AtOrAboveLast(i) /\ BeforeLastPt(i)[1] = LastPt(i)[1])
                   => probe[i].val = BeforeLastPt(i)[2]

\* C27 as amended: as stated, except that above the last breakpoint a pair
\* with x1 = x0 gives its y1, the angle of the last breakpoint.
C27_DegenerateSegments ==
    \A i \in Ids :
        Probed(i) =>
            /\ DegenerateCommon(i)
            /\ (AtOrAboveLast(i) /\ BeforeLastPt(i)[1] = LastPt(i)[1])
                   => probe[i].val = LastPt(i)[2]

\* The map (50,-45), (50,45) was asked at 400, above its two breakpoints of
\* one value, and gave 45.
C27_Witness ==
    \E i \in Ids :
        /\ Probed(i)
        /\ Pts(i) = <<Pt(50, -45), Pt(50, 45)>>
        /\ Asked(i) = R(400)
        /\ probe[i] = Ok(R(45))


\* C28: in the document a constructor call emits, the needle, every tick
\* with its label, the frame arc and every zone arc are placed in the polar
\* convention when the gauge is semicircular with max - min = 360 and
\* top-relative otherwise, and a tick at the value the needle shows is in
\* the direction of the needle.
C28_OneConvention ==
    \A i \in Ids :
        (IsBuilt(i) /\ lastCall[i].op = "__init__") =>
            /\ document[i].needle.polar = Polar(gauge[i])
            /\ \A k \in DOMAIN document[i].ticks :
                   /\ document[i].ticks[k].polar = Polar(gauge[i])
                   /\ document[i].ticks[k].value = ValueOf(gauge[i])
                          => BearingAt(document[i].ticks[k].polar,
                                       document[i].ticks[k].angle)
                                 = Bearing(document[i].needle)
            /\ \A k \in DOMAIN document[i].frame :
                   document[i].frame[k].polar = Polar(gauge[i])
            /\ \A k \in DOMAIN document[i].zones :
                   document[i].zones[k].polar = Polar(gauge[i])

\* A semicircular gauge over 0..360 built at a value that has a major tick:
\* needle, tick and frame arc are polar, and the tick is where the needle
\* points, away from straight up.
C28_Witness ==
    \E i \in Ids :
        /\ IsBuilt(i) /\ lastCall[i].op = "__init__"
        /\ Polar(gauge[i])
        /\ document[i].needle.polar
        /\ document[i].frame # <<>>
        /\ \E k \in DOMAIN document[i].ticks :
               /\ document[i].ticks[k].value = ValueOf(gauge[i])
               /\ document[i].ticks[k].major
               /\ BearingAt(TRUE, document[i].ticks[k].angle)
                      = Bearing(document[i].needle)
               /\ Bearing(document[i].needle) # R(0)


\* largeArc is 1 iff |a1 - a0| > 180 and sweep is 1 iff a1 - a0 > 0.
FlagsAsClaimed(arc) ==
    /\ arc.flags.large_arc = 1
           <=> (RLt(R(180), RSub(arc.a1, arc.a0))
                \/ RLt(R(180), RSub(arc.a0, arc.a1)))
    /\ arc.flags.sweep = 1 <=> RLt(arc.a0, arc.a1)
    /\ arc.flags.large_arc \in {0, 1} /\ arc.flags.sweep \in {0, 1}

\* The smallest and the largest value of a non-empty set of values.
Least(S) == CHOOSE x \in S : \A y \in S : RLe(x, y)
Greatest(S) == CHOOSE x \in S : \A y \in S : RLe(y, x)

\* The bands of the zones: (0.9, 30), (31, 50), (51, 90), (91, 99).
Bands == << <<(<<9, 10>>), R(30)>>, <<R(31), R(50)>>, <<R(51), R(90)>>,
            <<R(91), R(99)>> >>

C30_ZeroTickCount ==
    \A i \in Ids :
        (PlainTicksCall(i) /\ SpanOf(lastCall[i].args) # R(360)
                           /\ lastCall[i].args.tick_count # <<>>)
            => /\ lastCall[i].args.tick_count[1] = 0
                   => /\ raised[i] = "none"
                      /\ IsBuilt(i)
                      /\ Len(document[i].ticks) = 1
                      /\ document[i].ticks[1].value = gauge[i].min
               /\ lastCall[i].args.tick_count[1] < 0
                   => /\ raised[i] = "none"
                      /\ IsBuilt(i)
                      /\ document[i].ticks = <<>>

=============================================================================
